---- MODULE Spec2Model ----
(***************************************************************************)
(* Model of src/app.py: one Streamlit script pass (main) per user action,  *)
(* over the per-session dictionary st.session_state.                       *)
(*                                                                         *)
(* Units.  Coordinates are integers counting 0.0001 degree, so the         *)
(* selection epsilon 0.0001 is 1 and the double-click proximity 0.01 is    *)
(* 100.  Time is counted in half seconds, so the 1.0 s double-click        *)
(* window is 2.  The zoom level and search_df are left out: no pass reads  *)
(* them to decide anything.                                                *)
(***************************************************************************)
EXTENDS Integers, Sequences, FiniteSets, TLC

VARIABLES
    session_state,  \* st.session_state: a function whose DOMAIN is the keys set so far
    widgets,        \* the values the form controls hold between passes
    last_clicked,   \* the value the map component holds (st_folium's last_clicked)
    now,            \* what time.time() returns in the next pass
    pending,        \* TRUE when a pass is due with no user action (page load, st.rerun())
    obs             \* what the last pass did (observation only, never read by a pass)

vars == <<session_state, widgets, last_clicked, now, pending, obs>>

(***************************************************************************)
(* Bounds of the model and constants of the program                        *)
(***************************************************************************)
MaxTime == 5

DoubleClickWindow == 2
ProximityThreshold == 100
SelectionEpsilon == 1
DefaultRangeSize == 1000

Lats == {0, 1, 3, 103}
Lons == {0, 102}
ClickPositions == {<<0, 0>>, <<1, 0>>, <<3, 0>>, <<103, 0>>, <<3, 102>>}

DefaultCenter == <<0, 0>>

None == <<>>

Abs(x) == IF x < 0 THEN -x ELSE x

(***************************************************************************)
(* st.session_state as a dictionary                                        *)
(***************************************************************************)
Has(ss, k) == k \in DOMAIN ss

Put(ss, k, v) == [f \in DOMAIN ss \cup {k} |-> IF f = k THEN v ELSE ss[f]]

SetDefault(ss, k, v) == IF Has(ss, k) THEN ss ELSE Put(ss, k, v)

EmptySession == [f \in {} |-> None]

(***************************************************************************)
(* The pass context: session state plus how the pass is going              *)
(***************************************************************************)
NullSnapshot == [selected |-> None, center |-> None, time |-> 0, pos |-> None]

NoClick == [cls |-> "none", pos |-> None, time |-> 0, payload |-> "none",
            before |-> NullSnapshot, after |-> NullSnapshot, msgs |-> {}]

NoImage == [kind |-> "none", outcome |-> "none", bands |-> <<>>, opened |-> {},
            closed |-> {}, polygons |-> <<>>, cropped |-> <<>>, display |-> <<>>,
            before |-> EmptySession,
            after |-> EmptySession, msgs |-> {}, status |-> "run"]

NewCtx(ss) ==
    [ss |-> ss,
     status |-> "run",       \* "run", "rerun" (st.rerun), "return", "error" (outer except)
     msgs |-> {},            \* the messages shown to the user in this pass
     center |-> None,        \* the locals center_lat, center_lon
     selected |-> None,      \* the locals selected_lat, selected_lon
     drawn |-> None,         \* <<the map handed to st_folium in this pass>>
     request |-> None,       \* <<the search request issued in this pass>>
     rendered |-> {},        \* the controls the pass has put on the page
     rings |-> {},           \* the polygons built from a bounding box in this pass
     click |-> NoClick,      \* what the click machine did in this pass
     image |-> NoImage]      \* what the image generation did in this pass

Running(ctx) == ctx.status = "run"

\* The outer except clause (lines 795-811).  msg "unset_field": the pass read
\* a session field that no pass has set (AttributeError); "error": any other.
Raise(ctx, msg) == [ctx EXCEPT !.status = "error", !.msgs = @ \cup {msg}]

(***************************************************************************)
(* Map selection: the map center controls (lines 118-153)                  *)
(***************************************************************************)
NoEdit == [field |-> "none", value |-> 0]

\* A number input shows the session value; it returns another value only in
\* the pass that the user's edit of it triggers.
NumberInput(inp, field, value) ==
    IF inp.edit.field = field THEN inp.edit.value ELSE value

CenterInputs(ctx, inp) ==
    LET s1 == SetDefault(ctx.ss, "map_center_lat", DefaultCenter[1])
        s2 == SetDefault(s1, "map_center_lon", DefaultCenter[2])
        new_center_lat == NumberInput(inp, "center_lat", s2.map_center_lat)
        s3 == IF new_center_lat # s2.map_center_lat
              THEN Put(s2, "map_center_lat", new_center_lat) ELSE s2
        new_center_lon == NumberInput(inp, "center_lon", s3.map_center_lon)
        s4 == IF new_center_lon # s3.map_center_lon
              THEN Put(s3, "map_center_lon", new_center_lon) ELSE s3
    IN [ctx EXCEPT !.ss = s4,
                   !.center = <<s4.map_center_lat, s4.map_center_lon>>,
                   !.rendered = @ \cup {"center_inputs", "recenter"}]

\* The sidebar button that moves the map center to the selection point.
RecenterButton(ctx, inp) ==
    IF ~Running(ctx) \/ inp.button # "recenter" THEN ctx
    ELSE IF ~(Has(ctx.ss, "selected_lat") /\ Has(ctx.ss, "selected_lon"))
         THEN Raise(ctx, "unset_field")
         ELSE [ctx EXCEPT
                 !.ss = Put(Put(@, "map_center_lat", ctx.ss.selected_lat),
                            "map_center_lon", ctx.ss.selected_lon),
                 !.status = "rerun"]

(***************************************************************************)
(* Click-to-set mode: selection inputs and the map (lines 175-254)         *)
(***************************************************************************)
\* Variant: the points of the ring in (lat, lon) order.
BBoxPolygonLatLon(lat_min, lon_min, lat_max, lon_max) ==
    << <<lat_min, lon_min>>, <<lat_min, lon_max>>, <<lat_max, lon_max>>,
       <<lat_max, lon_min>>, <<lat_min, lon_min>> >>

\* The polygon literal of lines 319-328, 363-372 and 401-410
BBoxPolygon(lat_min, lon_min, lat_max, lon_max) ==
    << <<lon_min, lat_min>>, <<lon_max, lat_min>>, <<lon_max, lat_max>>,
       <<lon_min, lat_max>>, <<lon_min, lat_min>> >>

SelectionInputs(ctx, inp) ==
    LET s1 == SetDefault(ctx.ss, "selected_lat", ctx.ss.map_center_lat)
        s2 == SetDefault(s1, "selected_lon", s1.map_center_lon)
        new_lat == NumberInput(inp, "new_lat", s2.selected_lat)
        s3 == IF new_lat # s2.selected_lat
              THEN Put(Put(s2, "selected_lat", new_lat), "map_center_lat", new_lat)
              ELSE s2
        new_lon == NumberInput(inp, "new_lon", s3.selected_lon)
        s4 == IF new_lon # s3.selected_lon
              THEN Put(Put(s3, "selected_lon", new_lon), "map_center_lon", new_lon)
              ELSE s3
    IN [ctx EXCEPT !.ss = s4,
                   !.selected = <<s4.selected_lat, s4.selected_lon>>]

\* The folium map handed to st_folium: centered on the locals read at lines
\* 145-146, marker and rectangle from the locals read at lines 229-236.
DrawMap(ctx, range_size) ==
    [ctx EXCEPT !.drawn = <<[center |-> ctx.center, marker |-> ctx.selected,
                             range |-> range_size]>>,
                !.rendered = @ \cup {"selection_inputs", "map"}]

\* Variant: search_results is given no default.
ClickDefaultsNoResults(ctx) ==
    LET s1 == SetDefault(ctx.ss, "last_click_time", 0)
        s2 == SetDefault(s1, "last_click_pos", None)
        s3 == SetDefault(s2, "selected_item_id", 0)
        s5 == SetDefault(s3, "selected_item", None)
        s6 == SetDefault(s5, "display_items", <<>>)
    IN [ctx EXCEPT !.ss = s6]

\* lines 256-270
ClickDefaults(ctx) ==
    LET s1 == SetDefault(ctx.ss, "last_click_time", 0)
        s2 == SetDefault(s1, "last_click_pos", None)
        s3 == SetDefault(s2, "selected_item_id", 0)
        s4 == SetDefault(s3, "search_results", <<>>)
        s5 == SetDefault(s4, "selected_item", None)
        s6 == SetDefault(s5, "display_items", <<>>)
    IN [ctx EXCEPT !.ss = s6]

(***************************************************************************)
(* The click state machine (lines 273-316)                                 *)
(***************************************************************************)
NoPayload == [kind |-> "none", lat |-> 0, lng |-> 0]

ClickPayload(pos) == [kind |-> "click", lat |-> pos[1], lng |-> pos[2]]

\* Variant: only 'lat' is looked for, a missing 'lng' reads as 0.
WellFormedLatOnly(map_data) == map_data.kind \in {"click", "nolng"}

\* last_clicked present with both coordinates (lines 276-277)
WellFormed(map_data) == map_data.kind = "click"

\* Variant: a click at exactly the proximity threshold counts as close.
IsDoubleClickInclusive(ss, clicked_lat, clicked_lon, current_time) ==
    /\ ss.last_click_pos # None
    /\ current_time - ss.last_click_time < DoubleClickWindow
    /\ Abs(clicked_lat - ss.last_click_pos[1]) <= ProximityThreshold
    /\ Abs(clicked_lon - ss.last_click_pos[2]) <= ProximityThreshold

\* lines 285-288
IsDoubleClick(ss, clicked_lat, clicked_lon, current_time) ==
    /\ ss.last_click_pos # None
    /\ current_time - ss.last_click_time < DoubleClickWindow
    /\ Abs(clicked_lat - ss.last_click_pos[1]) < ProximityThreshold
    /\ Abs(clicked_lon - ss.last_click_pos[2]) < ProximityThreshold

MovesSelection(ss, clicked_lat, clicked_lon) ==
    \/ Abs(clicked_lat - ss.selected_lat) > SelectionEpsilon
    \/ Abs(clicked_lon - ss.selected_lon) > SelectionEpsilon

\* Variant: the double-click leaves the click history as it was.
DoubleClickKeepsHistory(ctx, clicked_lat, clicked_lon) ==
    [ctx EXCEPT
       !.ss = Put(Put(@, "map_center_lat", clicked_lat), "map_center_lon", clicked_lon),
       !.msgs = @ \cup {"double_click"},
       !.status = "rerun"]

\* lines 290-297
DoubleClick(ctx, clicked_lat, clicked_lon) ==
    [ctx EXCEPT
       !.ss = Put(Put(Put(Put(@, "map_center_lat", clicked_lat),
                          "map_center_lon", clicked_lon),
                      "last_click_time", 0),
                  "last_click_pos", None),
       !.msgs = @ \cup {"double_click"},
       !.status = "rerun"]

\* Variant: the single-click moves the selection point and not the map center.
SingleClickSelectionOnly(ctx, clicked_lat, clicked_lon, current_time) ==
    IF MovesSelection(ctx.ss, clicked_lat, clicked_lon)
    THEN [ctx EXCEPT
            !.ss = Put(Put(@, "selected_lat", clicked_lat), "selected_lon", clicked_lon),
            !.msgs = @ \cup {"selection_moved"},
            !.status = "rerun"]
    ELSE [ctx EXCEPT
            !.ss = Put(Put(@, "last_click_time", current_time),
                       "last_click_pos", <<clicked_lat, clicked_lon>>)]

\* lines 299-312: st.rerun() at line 308 leaves the pass before the click
\* history is written at lines 311-312.
SingleClick(ctx, clicked_lat, clicked_lon, current_time) ==
    IF MovesSelection(ctx.ss, clicked_lat, clicked_lon)
    THEN [ctx EXCEPT
            !.ss = Put(Put(Put(Put(@, "selected_lat", clicked_lat),
                               "selected_lon", clicked_lon),
                           "map_center_lat", clicked_lat),
                       "map_center_lon", clicked_lon),
            !.msgs = @ \cup {"selection_moved"},
            !.status = "rerun"]
    ELSE [ctx EXCEPT
            !.ss = Put(Put(@, "last_click_time", current_time),
                       "last_click_pos", <<clicked_lat, clicked_lon>>)]

ProcessClick(ctx, map_data, current_time) ==
    IF ~WellFormed(map_data) THEN ctx
    ELSE IF IsDoubleClick(ctx.ss, map_data.lat, map_data.lng, current_time)
         THEN DoubleClick(ctx, map_data.lat, map_data.lng)
         ELSE SingleClick(ctx, map_data.lat, map_data.lng, current_time)

\* What the click machine sees and leaves, kept for the properties.
Snapshot(ss) ==
    [selected |-> <<ss.selected_lat, ss.selected_lon>>,
     center |-> <<ss.map_center_lat, ss.map_center_lon>>,
     time |-> ss.last_click_time,
     pos |-> ss.last_click_pos]

ClickStep(ctx, map_data, current_time) ==
    LET after == ProcessClick(ctx, map_data, current_time)
        cls == IF ~WellFormed(map_data) THEN "none"
               ELSE IF IsDoubleClick(ctx.ss, map_data.lat, map_data.lng, current_time)
                    THEN "double" ELSE "single"
    IN [after EXCEPT !.click =
            [cls |-> cls,
             pos |-> IF WellFormed(map_data) THEN <<map_data.lat, map_data.lng>> ELSE None,
             time |-> IF WellFormed(map_data) THEN current_time ELSE 0,
             payload |-> map_data.kind,
             before |-> Snapshot(ctx.ss),
             after |-> Snapshot(after.ss),
             msgs |-> after.msgs \ ctx.msgs]]

\* A polygon built from a box, and where in the program it was built.
Built(site, b) ==
    [site |-> site, box |-> b,
     ring |-> BBoxPolygon(b.lat_min, b.lon_min, b.lat_max, b.lon_max)]

\* lines 232-236 and 318-331
StoreClickAOI(ctx, range_size) ==
    LET b == [lat_min |-> ctx.selected[1] - range_size,
              lon_min |-> ctx.selected[2] - range_size,
              lat_max |-> ctx.selected[1] + range_size,
              lon_max |-> ctx.selected[2] + range_size]
        area_of_interest == Built("click", b)
    IN [ctx EXCEPT !.ss = Put(@, "area_of_interest", area_of_interest.ring),
                   !.rings = @ \cup {area_of_interest}]

\* lines 338-342
MoveToSelectedButton(ctx, inp) ==
    IF inp.button # "move_to_selected"
    THEN [ctx EXCEPT !.rendered = @ \cup {"move_to_selected"}]
    ELSE [ctx EXCEPT
            !.ss = Put(Put(@, "map_center_lat", ctx.selected[1]),
                       "map_center_lon", ctx.selected[2]),
            !.msgs = @ \cup {"center_moved"},
            !.status = "rerun"]

ClickMode(ctx, w, inp) ==
    LET c1 == DrawMap(SelectionInputs(ctx, inp), w.range_size)
        c2 == ClickStep(ClickDefaults(c1), inp.map_data, inp.current_time)
    IN IF ~Running(c2) THEN c2
       ELSE MoveToSelectedButton(StoreClickAOI(c2, w.range_size), inp)

(***************************************************************************)
(* Direct bounding-box entry under map selection (lines 347-389) and the   *)
(* sidebar coordinate-input mode (lines 391-413)                           *)
(***************************************************************************)
Malformed(b) == b.lat_min >= b.lat_max \/ b.lon_min >= b.lon_max

\* lines 357-372: a malformed box clears the stored AOI; a valid one builds
\* the polygon in the local area_of_interest only, which nothing reads.
DirectMode(ctx, w) ==
    IF Malformed(w.direct_bbox)
    THEN [ctx EXCEPT !.ss = Put(@, "area_of_interest", None),
                     !.msgs = @ \cup {"bbox_rejected"},
                     !.rendered = @ \cup {"direct_inputs"}]
    ELSE LET area_of_interest == Built("direct", w.direct_bbox)
         IN [ctx EXCEPT !.rings = @ \cup {area_of_interest},
                        !.rendered = @ \cup {"direct_inputs"}]

\* lines 400-413: the polygon is built and stored with no validation.
SidebarMode(ctx, w) ==
    LET area_of_interest == Built("sidebar", w.sidebar_bbox)
    IN [ctx EXCEPT !.ss = Put(@, "area_of_interest", area_of_interest.ring),
                   !.rings = @ \cup {area_of_interest},
                   !.rendered = @ \cup {"sidebar_inputs"}]

MapSelection(ctx, w, inp) ==
    LET c1 == RecenterButton(CenterInputs(ctx, inp), inp)
    IN IF ~Running(c1) THEN c1
       ELSE IF w.area_method = "click" THEN ClickMode(c1, w, inp)
            ELSE DirectMode(c1, w)

\* lines 112-413
LocationStep(ctx, w, inp) ==
    LET c0 == [ctx EXCEPT !.ss = SetDefault(@, "area_of_interest", None)]
    IN IF w.location_method = "map" THEN MapSelection(c0, w, inp)
       ELSE SidebarMode(c0, w)

(***************************************************************************)
(* Scenes the catalog can return.  A band is a georeferenced raster: its   *)
(* CRS, its extent in that CRS and its pixel size.                         *)
(***************************************************************************)
Band(crs, x0, res, dn) ==
    [crs |-> crs, xmin |-> x0 - 1500, xmax |-> x0 + 300,
     ymin |-> -1500, ymax |-> 1500, res |-> res,
     dn |-> dn]     \* the digital number of the first pixel of a window

\* pyproj's Transformer, geographic (lon, lat) to a projected CRS, reduced to
\* what tells two UTM zones apart: the same point has another easting.
Transform(crs, p) ==
    IF crs = "epsg:32654" THEN <<p[1] + 5000, p[2]>>
    ELSE <<p[1] + 65000, p[2] + 7>>

Z54(res, dn) == Band("epsg:32654", 5000, res, dn)

Z53(res, dn) == Band("epsg:32653", 65000, res, dn)

Scene(id, collection, cloud, datetime, rgb, vh) ==
    [id |-> id, collection |-> collection, cloud |-> cloud, datetime |-> datetime,
     rgb |-> rgb,   \* the assets among B04, B03, B02 that the scene has, in that order
     vh |-> vh]     \* <<the vh asset>> when the scene has one

Catalog ==
    << Scene(1, "sentinel-2-l2a", 5, 4, <<Z54(500, 0), Z54(500, 2000), Z54(500, 4000)>>, <<>>),
       Scene(2, "sentinel-2-l2a", 10, 3, <<Z54(500, 0), Z53(500, 2000), Z54(500, 4000)>>, <<>>),
       Scene(3, "sentinel-2-l2a", 20, 2, <<Z54(500, 0), Z54(1000, 2000), Z54(500, 4000)>>, <<>>),
       Scene(4, "sentinel-2-l2a", 30, 1, <<Z54(500, 0), Z54(500, 2000)>>, <<>>),
       Scene(5, "sentinel-1-grd", 0, 2, <<>>, <<Z54(500, 0)>>),
       Scene(6, "sentinel-1-grd", 0, 1, <<>>, <<>>) >>

CollectionId(satellite_type) ==
    IF satellite_type = "Sentinel-2" THEN "sentinel-2-l2a" ELSE "sentinel-1-grd"

(***************************************************************************)
(* The search (lines 425-620)                                              *)
(***************************************************************************)
\* lines 430-437
SearchParams(ss, w) ==
    [collections |-> CollectionId(w.satellite_type),
     intersects |-> ss.area_of_interest,
     query |-> IF w.satellite_type = "Sentinel-2"
               THEN <<[op |-> "lt", value |-> w.max_cloud_cover]>> ELSE <<>>]

\* The catalog's side of the request: the scenes of the collection that pass
\* the attribute filter, in catalog order.  Which scenes intersect the area
\* and the dates is the environment's choice (intersecting).
Matches(scene, params) ==
    /\ scene.collection = params.collections
    /\ \A i \in DOMAIN params.query :
          params.query[i].op = "lt" => scene.cloud < params.query[i].value

RECURSIVE Select(_, _)
Select(seq, keep) ==
    IF seq = <<>> THEN <<>>
    ELSE IF keep[Head(seq).id] THEN <<Head(seq)>> \o Select(Tail(seq), keep)
         ELSE Select(Tail(seq), keep)

SceneIds == {Catalog[i].id : i \in 1..Len(Catalog)}

CatalogSearch(params, intersecting) ==
    Select(Catalog, [i \in 1..Len(Catalog) |->
                        Catalog[i].id \in intersecting /\ Matches(Catalog[i], params)])

\* lines 513-554: least cloud first for Sentinel-2, newest first for Sentinel-1
SortKey(item, satellite_type) ==
    IF satellite_type = "Sentinel-2" THEN item.cloud ELSE -item.datetime

RECURSIVE InsertSorted(_, _, _)
InsertSorted(item, seq, satellite_type) ==
    IF seq = <<>> THEN <<item>>
    ELSE IF SortKey(item, satellite_type) < SortKey(Head(seq), satellite_type)
         THEN <<item>> \o seq
         ELSE <<Head(seq)>> \o InsertSorted(item, Tail(seq), satellite_type)

RECURSIVE SortValues(_, _)
SortValues(seq, satellite_type) ==
    IF seq = <<>> THEN <<>>
    ELSE InsertSorted(Head(seq), SortValues(Tail(seq), satellite_type), satellite_type)

DisplayLimit == 20

\* df_sorted.head(20)
DisplayItems(items, satellite_type) ==
    LET sorted == SortValues(items, satellite_type)
    IN IF Len(sorted) <= DisplayLimit THEN sorted ELSE SubSeq(sorted, 1, DisplayLimit)

\* next((i for i, item in enumerate(display_items) if item['id'] == id), 0), 1-based
IndexOfId(display_items, id) ==
    IF \E i \in 1..Len(display_items) : display_items[i].id = id
    THEN CHOOSE i \in 1..Len(display_items) :
            /\ display_items[i].id = id
            /\ \A j \in 1..(i - 1) : display_items[j].id # id
    ELSE 1

\* lines 577-608
ChooseAfterSearch(ctx, display_items) ==
    IF display_items = <<>>
    THEN [ctx EXCEPT !.msgs = @ \cup {"nothing_to_display"}]
    ELSE LET default_idx == IF Has(ctx.ss, "selected_item_id") /\ ctx.ss.selected_item_id # 0
                            THEN IndexOfId(display_items, ctx.ss.selected_item_id)
                            ELSE 1
             selected_item == display_items[default_idx]
         IN [ctx EXCEPT
               !.ss = Put(Put(Put(@, "selected_item_id", selected_item.id),
                              "selected_item", <<selected_item>>),
                          "display_items", display_items),
               !.msgs = @ \cup {"selected"}]

\* Variant: the fallback stores the first scene and not its id.
SearchFallbackItemOnly(ctx, items) ==
    [ctx EXCEPT !.ss = Put(@, "selected_item", <<items[1]>>),
                !.msgs = @ \cup {"selection_error"}]

\* lines 611-620: the except clause of the selection (lines 509-609), entered
\* when preparing the display list or the selection box raises; the display
\* list is left as it was.
SearchFallback(ctx, items) ==
    [ctx EXCEPT !.ss = Put(Put(@, "selected_item", <<items[1]>>),
                           "selected_item_id", items[1].id),
                !.msgs = @ \cup {"selection_error"}]

SearchStep(ctx, w, inp) ==
    IF ~Running(ctx) THEN ctx
    ELSE LET c0 == [ctx EXCEPT !.rendered =
                        @ \cup {"search"} \cup (IF w.satellite_type = "Sentinel-2"
                                                THEN {"cloud"} ELSE {})]
         IN IF inp.button # "search" \/ c0.ss.area_of_interest = None THEN c0
            ELSE LET params == SearchParams(c0.ss, w)
                     c1 == [c0 EXCEPT !.request = <<params>>]
                     items == CatalogSearch(params, inp.intersecting)
                 IN IF inp.search_fails THEN Raise(c1, "error")
                    ELSE IF Len(items) = 0
                    THEN [c1 EXCEPT !.msgs = @ \cup {"no_results"}, !.status = "return"]
                    ELSE LET c2 == [c1 EXCEPT !.ss = Put(@, "search_results", items),
                                              !.msgs = @ \cup {"found"}]
                         IN IF inp.selection_fails THEN SearchFallback(c2, items)
                            ELSE ChooseAfterSearch(c2, DisplayItems(items, w.satellite_type))

(***************************************************************************)
(* The selection box shown whenever results are stored (lines 622-650)     *)
(***************************************************************************)
SelectorStep(ctx, inp) ==
    IF ~Running(ctx) THEN ctx
    ELSE IF ~Has(ctx.ss, "search_results") THEN Raise(ctx, "unset_field")
    ELSE IF ctx.ss.search_results = <<>> THEN ctx
    ELSE IF ~Has(ctx.ss, "display_items") THEN Raise(ctx, "unset_field")
    ELSE IF ctx.ss.display_items = <<>> THEN ctx
    ELSE IF ~Has(ctx.ss, "selected_item_id") THEN Raise(ctx, "unset_field")
    ELSE LET display_items == ctx.ss.display_items
             current_idx == IF ctx.ss.selected_item_id # 0
                            THEN IndexOfId(display_items, ctx.ss.selected_item_id)
                            ELSE 1
             selected_idx == IF inp.choice \in 1..Len(display_items)
                             THEN inp.choice ELSE current_idx
             selected_item == display_items[selected_idx]
         IN [ctx EXCEPT
               !.ss = Put(Put(@, "selected_item", <<selected_item>>),
                          "selected_item_id", selected_item.id),
               !.msgs = @ \cup {"selected"},
               !.rendered = @ \cup {"selector"}]

(***************************************************************************)
(* crop_image_to_aoi (lines 54-72)                                         *)
(***************************************************************************)
Xs(polygon) == {polygon[i][1] : i \in DOMAIN polygon}

Ys(polygon) == {polygon[i][2] : i \in DOMAIN polygon}

Min(S) == CHOOSE x \in S : \A y \in S : x <= y

Max(S) == CHOOSE x \in S : \A y \in S : x >= y

\* rasterio.mask.mask(..., crop=True) raises when the shape misses the raster
Overlaps(polygon, band) ==
    /\ Min(Xs(polygon)) <= band.xmax /\ Max(Xs(polygon)) >= band.xmin
    /\ Min(Ys(polygon)) <= band.ymax /\ Max(Ys(polygon)) >= band.ymin

\* rows and columns of the window of the band that covers the shape
CropShape(polygon, band) ==
    LET x0 == Max({Min(Xs(polygon)), band.xmin})
        x1 == Min({Max(Xs(polygon)), band.xmax})
        y0 == Max({Min(Ys(polygon)), band.ymin})
        y1 == Min({Max(Ys(polygon)), band.ymax})
    IN <<(y1 - y0) \div band.res + 1, (x1 - x0) \div band.res + 1>>

\* The pixel values of a band in a window of the given shape
Read(band, shape) ==
    [rc \in (1..shape[1]) \X (1..shape[2]) |->
        band.dn + 3000 * (rc[1] - 1) + 1000 * (rc[2] - 1)]

\* The ring is reprojected once, into target_crs (lines 59-61); every band is
\* then masked with that one polygon (lines 67-70).  The loop stops at the
\* first band the polygon misses.
CropImageToAoi(data, area_of_interest, target_crs) ==
    IF area_of_interest = None
    THEN [ok |-> FALSE, polygons |-> <<>>, cropped_data |-> <<>>]
    ELSE LET new_area_of_interest ==
                 [i \in 1..Len(area_of_interest) |-> Transform(target_crs, area_of_interest[i])]
             missed == {i \in 1..Len(data) : ~Overlaps(new_area_of_interest, data[i])}
             last == IF missed = {} THEN Len(data) ELSE Min(missed)
             done == IF missed = {} THEN Len(data) ELSE last - 1
         IN [ok |-> missed = {},
             polygons |-> [i \in 1..last |-> new_area_of_interest],
             cropped_data |->
                 [i \in 1..done |->
                     LET shape == CropShape(new_area_of_interest, data[i])
                     IN [shape |-> shape, grid |-> Read(data[i], shape)]]]

(***************************************************************************)
(* The composite (lines 745-758).  A displayed value is a fraction, kept   *)
(* as numerator and denominator.                                           *)
(***************************************************************************)
ScaleFactor == 5000

\* Variant: the channels in the order Blue, Green, Red.
ConcatenateReversed(cropped_data) ==
    [ok |-> \A i \in 2..3 : cropped_data[i].shape = cropped_data[1].shape,
     shape |-> cropped_data[1].shape,
     image |-> [ch \in 1..3 |-> cropped_data[4 - ch].grid]]

\* np.concatenate(..., axis=0) of three (1, rows, cols) arrays: it raises
\* when the rows or the columns differ.
Concatenate(cropped_data) ==
    [ok |-> \A i \in 2..3 : cropped_data[i].shape = cropped_data[1].shape,
     shape |-> cropped_data[1].shape,
     image |-> [ch \in 1..3 |-> cropped_data[ch].grid]]

\* np.rollaxis(rgb_image, 0, 3): (channel, row, col) to (row, col, channel)
RollAxis(rgb_image, shape) ==
    [rc \in (1..shape[1]) \X (1..shape[2]) |-> [ch \in 1..3 |-> rgb_image[ch][rc]]]

Divide(rgb_display, by) ==
    [rc \in DOMAIN rgb_display |->
        [ch \in 1..3 |-> [num |-> rgb_display[rc][ch], den |-> by]]]

\* np.clip(rgb_normalized, 0, 1)
Clip(rgb_normalized) ==
    [rc \in DOMAIN rgb_normalized |->
        [ch \in 1..3 |->
            LET q == rgb_normalized[rc][ch]
            IN IF q.num < 0 THEN [q EXCEPT !.num = 0]
               ELSE IF q.num > q.den THEN [q EXCEPT !.num = q.den]
               ELSE q]]

(***************************************************************************)
(* Image generation (lines 728-793)                                        *)
(***************************************************************************)
ImageResult(ctx, kind, outcome, bands, opened, closed, polygons, after) ==
    [after EXCEPT !.image =
        [kind |-> kind, outcome |-> outcome, bands |-> bands, opened |-> opened,
         closed |-> closed, polygons |-> polygons, cropped |-> <<>>, display |-> <<>>,
         before |-> ctx.ss,
         after |-> after.ss, msgs |-> after.msgs \ ctx.msgs, status |-> after.status]]

\* The cropped bands handed to the composite and <<the image shown>>, kept
\* for the properties.
Composite(ctx, cropped_data, display) ==
    [ctx EXCEPT !.image.cropped = cropped_data, !.image.display = display]

\* Variant: the failure also drops the selected scene.
ImageErrorDropsSelection(ctx) ==
    [ctx EXCEPT !.msgs = @ \cup {"image_error"},
                !.ss = Put(Put(@, "selected_item", None), "selected_item_id", 0)]

\* lines 770-771 and 792-793: the except clause of the image generation
ImageError(ctx) == [ctx EXCEPT !.msgs = @ \cup {"image_error"}]

\* lines 729-771.  fetch_fails = k > 0: the k-th requests.get / rasterio.open
\* raises, after the bands before it were opened.
RgbImage(ctx, inp) ==
    LET urls == ctx.ss.selected_item[1].rgb
    IN IF Len(urls) # 3
       THEN ImageResult(ctx, "rgb", "bands_missing", urls, {}, {}, <<>>,
                        [ctx EXCEPT !.msgs = @ \cup {"bands_missing"}])
       ELSE IF inp.fetch_fails \in 1..3
       THEN ImageResult(ctx, "rgb", "fetch_failed", urls, 1..(inp.fetch_fails - 1), {},
                        <<>>, ImageError(ctx))
       ELSE LET data == urls
                crs == data[1].crs
                crop == CropImageToAoi(data, ctx.ss.area_of_interest, crs)
            IN IF ~crop.ok
               THEN ImageResult(ctx, "rgb", "crop_failed", data, 1..3, {},
                                crop.polygons, ImageError(ctx))
               ELSE LET rgb_image == Concatenate(crop.cropped_data)
                    IN IF ~rgb_image.ok
                       THEN Composite(
                               ImageResult(ctx, "rgb", "composite_failed", data, 1..3, {},
                                           crop.polygons, ImageError(ctx)),
                               crop.cropped_data, <<>>)
                       ELSE LET rgb_display == RollAxis(rgb_image.image, rgb_image.shape)
                                rgb_normalized == Divide(rgb_display, ScaleFactor)
                            IN Composite(
                                  ImageResult(ctx, "rgb", "ok", data, 1..3, 1..3,
                                              crop.polygons,
                                              [ctx EXCEPT !.msgs = @ \cup {"image_shown"}]),
                                  crop.cropped_data, <<Clip(rgb_normalized)>>)

\* lines 777-793: the band is opened in a with statement.  fetch_fails = 1:
\* the fetch or open fails; fetch_fails > 1: reading or plotting fails.
VhImage(ctx, inp) ==
    LET url == ctx.ss.selected_item[1].vh
    IN IF inp.fetch_fails = 1
       THEN ImageResult(ctx, "vh", "fetch_failed", url, {}, {}, <<>>, ImageError(ctx))
       ELSE IF inp.fetch_fails > 1
       THEN ImageResult(ctx, "vh", "read_failed", url, {1}, {1}, <<>>, ImageError(ctx))
       ELSE ImageResult(ctx, "vh", "ok", url, {1}, {1}, <<>>,
                        [ctx EXCEPT !.msgs = @ \cup {"image_shown"}])

\* lines 652-793
PreviewStep(ctx, w, inp) ==
    IF ~Running(ctx) THEN ctx
    ELSE IF ~Has(ctx.ss, "selected_item") THEN Raise(ctx, "unset_field")
    ELSE IF ctx.ss.selected_item = None THEN ctx
    ELSE LET item == ctx.ss.selected_item[1]
             c1 == [ctx EXCEPT !.msgs = @ \cup {"preview"}]
         IN IF w.satellite_type = "Sentinel-2"
            THEN LET c2 == [c1 EXCEPT !.rendered = @ \cup {"rgb"}]
                 IN IF inp.button = "rgb" THEN RgbImage(c2, inp) ELSE c2
            ELSE IF item.vh = <<>> THEN c1
            ELSE LET c2 == [c1 EXCEPT !.rendered = @ \cup {"vh"}]
                 IN IF inp.button = "vh" THEN VhImage(c2, inp) ELSE c2

(***************************************************************************)
(* main(): one pass                                                        *)
(***************************************************************************)
\* The steps in program order; each one starts from the context the one
\* before it left.
Main(ss, w, inp) ==
    CHOOSE c4 \in
        {PreviewStep(c3, w, inp) : c3 \in
            {SelectorStep(c2, inp) : c2 \in
                {SearchStep(c1, w, inp) : c1 \in
                    {LocationStep(c0, w, inp) : c0 \in {NewCtx(ss)}}}}} : TRUE

(***************************************************************************)
(* The session: initial state and the passes                               *)
(***************************************************************************)
DefaultWidgets ==
    [satellite_type |-> "Sentinel-2",
     location_method |-> "map",
     area_method |-> "click",
     range_size |-> DefaultRangeSize,
     direct_bbox |-> [lat_min |-> -812, lon_min |-> -1671, lat_max |-> 688, lon_max |-> 329],
     sidebar_bbox |-> [lat_min |-> -812, lon_min |-> -671, lat_max |-> 188, lon_max |-> 329],
     max_cloud_cover |-> 30]

NoInput ==
    [edit |-> NoEdit, button |-> "none", map_data |-> NoPayload, current_time |-> 0,
     intersecting |-> {}, search_fails |-> FALSE, selection_fails |-> FALSE,
     fetch_fails |-> 0, choice |-> 0]

NoEarlierClick == [pos |-> None, time |-> 0, history_empty |-> FALSE, cls |-> "none"]

NoPair == [consecutive |-> FALSE, on_empty |-> FALSE, soon |-> FALSE, close |-> FALSE,
           first_cls |-> "none"]

Init ==
    /\ session_state = EmptySession
    /\ widgets = DefaultWidgets
    /\ last_clicked = NoPayload
    /\ now = DoubleClickWindow + 1
    /\ pending = TRUE
    /\ obs = [event |-> "init", status |-> "run", msgs |-> {}, rendered |-> {},
              rings |-> {},
              drawn |-> None, request |-> None, click |-> NoClick, image |-> NoImage,
              last_cls |-> "none", prev_cls |-> "none",
              earlier_click |-> NoEarlierClick, pair |-> NoPair]

\* obs.earlier_click: the user's click that a pass processed last, as long
\* as the user has done nothing else since.  obs.pair: how the click this
\* pass processed stands to that earlier click.  obs.last_cls, obs.prev_cls:
\* the classes of the last two click payloads that any pass processed.
ClickRecord(c) ==
    [pos |-> c.click.pos, time |-> c.click.time,
     history_empty |-> c.click.before.pos = None, cls |-> c.click.cls]

Near(p, q) ==
    /\ Abs(p[1] - q[1]) < ProximityThreshold
    /\ Abs(p[2] - q[2]) < ProximityThreshold

ClickPair(first, c) ==
    [consecutive |-> TRUE,
     on_empty |-> first.history_empty,
     soon |-> c.click.time - first.time < DoubleClickWindow,
     close |-> Near(c.click.pos, first.pos),
     first_cls |-> first.cls]

Observe(event, c) ==
    LET processed == c.click.cls # "none"
    IN [event |-> event, status |-> c.status, msgs |-> c.msgs, rendered |-> c.rendered,
        rings |-> c.rings,
        drawn |-> c.drawn, request |-> c.request, click |-> c.click, image |-> c.image,
        last_cls |-> IF processed THEN c.click.cls ELSE obs.last_cls,
        prev_cls |-> IF processed THEN obs.last_cls ELSE obs.prev_cls,
        earlier_click |-> IF event = "click" /\ processed THEN ClickRecord(c)
                          ELSE IF event = "run" THEN obs.earlier_click
                          ELSE NoEarlierClick,
        pair |-> IF event = "click" /\ processed /\ obs.earlier_click.pos # None
                 THEN ClickPair(obs.earlier_click, c) ELSE NoPair]

\* One pass of main() with the controls w and the inputs inp.
Pass(event, w, inp) ==
    \E c \in {Main(session_state, w, [inp EXCEPT !.current_time = now])} :
       /\ inp.map_data # last_clicked /\ inp.map_data = NoPayload => c.drawn # obs.drawn
       /\ session_state' = c.ss
       /\ widgets' = w
       /\ last_clicked' = IF c.drawn = None THEN NoPayload ELSE inp.map_data
       /\ pending' = (c.status = "rerun")
       /\ obs' = Observe(event, c)
       /\ UNCHANGED now

\* Half a second goes by while the page waits for the user.
Tick ==
    /\ ~pending
    /\ now < MaxTime
    /\ now' = now + 1
    /\ UNCHANGED <<session_state, widgets, last_clicked, pending, obs>>

\* A pass that no click triggers is handed the value the map component still
\* holds, or nothing when the component was created anew, which can happen
\* only when the map it is given has changed (first conjunct of Pass).
Redelivered == {last_clicked, NoPayload}

Rendered(control) == ~pending /\ control \in obs.rendered

\* The page load, and the pass that st.rerun() asks for.
ScriptRun ==
    /\ pending
    /\ \E md \in Redelivered :
          Pass("run", widgets, [NoInput EXCEPT !.map_data = md])

UserClick ==
    /\ Rendered("map")
    /\ \E pos \in ClickPositions :
          Pass("click", widgets, [NoInput EXCEPT !.map_data = ClickPayload(pos)])

\* A click payload that lacks a coordinate.
MalformedClick ==
    /\ Rendered("map")
    /\ \E kind \in {"nolat", "nolng"} :
          Pass("noise", widgets,
               [NoInput EXCEPT !.map_data = [kind |-> kind, lat |-> 0, lng |-> 0]])

EditCenter ==
    /\ Rendered("center_inputs")
    /\ \E md \in Redelivered :
          \/ \E v \in Lats \ {session_state.map_center_lat} :
                Pass("edit", widgets,
                     [NoInput EXCEPT !.map_data = md,
                                     !.edit = [field |-> "center_lat", value |-> v]])
          \/ \E v \in Lons \ {session_state.map_center_lon} :
                Pass("edit", widgets,
                     [NoInput EXCEPT !.map_data = md,
                                     !.edit = [field |-> "center_lon", value |-> v]])

EditSelection ==
    /\ Rendered("selection_inputs")
    /\ \E md \in Redelivered :
          \/ \E v \in Lats \ {session_state.selected_lat} :
                Pass("edit", widgets,
                     [NoInput EXCEPT !.map_data = md,
                                     !.edit = [field |-> "new_lat", value |-> v]])
          \/ \E v \in Lons \ {session_state.selected_lon} :
                Pass("edit", widgets,
                     [NoInput EXCEPT !.map_data = md,
                                     !.edit = [field |-> "new_lon", value |-> v]])

PressRecenter ==
    /\ Rendered("recenter")
    /\ \E md \in Redelivered :
          Pass("button", widgets, [NoInput EXCEPT !.map_data = md, !.button = "recenter"])

PressMoveToSelected ==
    /\ Rendered("move_to_selected")
    /\ \E md \in Redelivered :
          Pass("button", widgets,
               [NoInput EXCEPT !.map_data = md, !.button = "move_to_selected"])

\* The fields of the two forms that the user edits, and the values typed.
DirectFields == {"lat_min", "lon_max"}

SidebarFields == {"lat_max", "lon_min"}

BBoxValues == {1000}

SetLocationMethod ==
    /\ ~pending
    /\ \E m \in {"map", "coords"} \ {widgets.location_method} :
          Pass("control", [widgets EXCEPT !.location_method = m], NoInput)

SetAreaMethod ==
    /\ Rendered("center_inputs")
    /\ \E m \in {"click", "direct"} \ {widgets.area_method} :
          Pass("control", [widgets EXCEPT !.area_method = m], NoInput)

SetRangeSize ==
    /\ Rendered("map")
    /\ \E r \in {100, DefaultRangeSize} \ {widgets.range_size},
          md \in Redelivered :
          Pass("control", [widgets EXCEPT !.range_size = r],
               [NoInput EXCEPT !.map_data = md])

EditDirectBBox ==
    /\ Rendered("direct_inputs")
    /\ \E f \in DirectFields : \E v \in BBoxValues \cup {DefaultWidgets.direct_bbox[f]} :
          /\ v # widgets.direct_bbox[f]
          /\ Pass("edit", [widgets EXCEPT !.direct_bbox[f] = v], NoInput)

EditSidebarBBox ==
    /\ Rendered("sidebar_inputs")
    /\ \E f \in SidebarFields : \E v \in BBoxValues \cup {DefaultWidgets.sidebar_bbox[f]} :
          /\ v # widgets.sidebar_bbox[f]
          /\ Pass("edit", [widgets EXCEPT !.sidebar_bbox[f] = v], NoInput)

SetSatelliteType ==
    /\ ~pending
    /\ \E t \in {"Sentinel-2", "Sentinel-1"} \ {widgets.satellite_type},
          md \in Redelivered :
          Pass("control", [widgets EXCEPT !.satellite_type = t],
               [NoInput EXCEPT !.map_data = md])

SetMaxCloudCover ==
    /\ Rendered("cloud")
    /\ \E c \in {30, 60} \ {widgets.max_cloud_cover},
          md \in Redelivered :
          Pass("control", [widgets EXCEPT !.max_cloud_cover = c],
               [NoInput EXCEPT !.map_data = md])

PressSearch ==
    /\ Rendered("search")
    /\ \E ids \in SUBSET {id \in SceneIds :
                           Catalog[id].collection = CollectionId(widgets.satellite_type)},
          fails \in BOOLEAN,
          md \in Redelivered :
          Pass("button", widgets,
               [NoInput EXCEPT !.map_data = md, !.button = "search",
                               !.intersecting = ids, !.search_fails = fails])

\* A search during which preparing the display list or the selection box
\* raises (the try block of lines 509-609).
PressSearchSelectionFails ==
    /\ Rendered("search")
    /\ \E ids \in SUBSET {id \in SceneIds :
                           Catalog[id].collection = CollectionId(widgets.satellite_type)},
          md \in Redelivered :
          Pass("button", widgets,
               [NoInput EXCEPT !.map_data = md, !.button = "search",
                               !.intersecting = ids, !.selection_fails = TRUE])

ChooseItem ==
    /\ Rendered("selector")
    /\ \E i \in 1..Len(session_state.display_items),
          md \in Redelivered :
          /\ session_state.display_items[i].id # session_state.selected_item_id
          /\ Pass("control", widgets, [NoInput EXCEPT !.map_data = md, !.choice = i])

PressRgb ==
    /\ Rendered("rgb")
    /\ \E k \in 0..3, md \in Redelivered :
          Pass("button", widgets,
               [NoInput EXCEPT !.map_data = md, !.button = "rgb", !.fetch_fails = k])

PressVh ==
    /\ Rendered("vh")
    /\ \E k \in 0..2, md \in Redelivered :
          Pass("button", widgets,
               [NoInput EXCEPT !.map_data = md, !.button = "vh", !.fetch_fails = k])

(***************************************************************************)
(* Specifications: the whole session, and the session with the user kept   *)
(* to the controls of one part of the page                                 *)
(***************************************************************************)
Next ==
    \/ Tick \/ ScriptRun \/ UserClick \/ MalformedClick \/ EditCenter \/ EditSelection
    \/ PressRecenter \/ PressMoveToSelected \/ SetLocationMethod \/ SetAreaMethod
    \/ SetRangeSize \/ EditDirectBBox \/ EditSidebarBBox \/ SetSatelliteType
    \/ SetMaxCloudCover \/ PressSearch \/ PressSearchSelectionFails \/ ChooseItem
    \/ PressRgb \/ PressVh

Spec == Init /\ [][Next]_vars

\* The map: clicks, the numeric center and selection inputs, the recenter buttons.
NextMap ==
    \/ Tick \/ ScriptRun \/ UserClick \/ MalformedClick \/ EditSelection
    \/ PressRecenter \/ PressMoveToSelected

SpecMap == Init /\ [][NextMap]_vars

\* The area forms and the search.
NextSearch ==
    \/ ScriptRun \/ SetLocationMethod \/ SetAreaMethod \/ EditDirectBBox
    \/ EditSidebarBBox \/ PressSearch

SpecSearch == Init /\ [][NextSearch]_vars

\* Search, selection and image generation.
NextImage ==
    \/ ScriptRun \/ SetLocationMethod \/ EditSidebarBBox \/ SetSatelliteType
    \/ SetMaxCloudCover \/ PressSearch \/ ChooseItem \/ PressRgb \/ PressVh

SpecImage == Init /\ [][NextImage]_vars

\* Searches, searches whose selection fails, and the selection box.
NextSelect ==
    \/ ScriptRun \/ SetSatelliteType \/ PressSearch \/ PressSearchSelectionFails
    \/ ChooseItem

SpecSelect == Init /\ [][NextSelect]_vars

\* Mode switches, the buttons and the searches.
NextModes ==
    \/ ScriptRun \/ SetLocationMethod \/ SetAreaMethod \/ SetSatelliteType
    \/ PressRecenter \/ PressMoveToSelected \/ PressSearch \/ ChooseItem

SpecModes == Init /\ [][NextModes]_vars

(***************************************************************************)
(* Properties of the click state machine                                   *)
(***************************************************************************)
Selected == <<session_state.selected_lat, session_state.selected_lon>>

Center == <<session_state.map_center_lat, session_state.map_center_lon>>

\* C1 (as claimed): of two consecutive clicks of the user, the first one
\* processed on an empty click history, the second one less than 1.0 s later
\* and within 0.01 degrees on both axes is classified as a double-click.
C1_SecondClickIsDoubleClick ==
    (obs.event = "click" /\ obs.pair.consecutive /\ obs.pair.on_empty
        /\ obs.pair.soon /\ obs.pair.close)
    => obs.click.cls = "double"

\* C2 (as claimed): a double-click moves the map center to the click, empties
\* the click history and leaves the selection point alone, and the selection
\* point is still the same after the pass that its st.rerun() asks for.
C2_DoubleClickKeepsSelection ==
    [][/\ obs'.click.cls = "double" =>
            /\ obs'.click.after.center = obs'.click.pos
            /\ obs'.click.after.pos = None
            /\ obs'.click.after.selected = obs'.click.before.selected
       /\ (obs.click.cls = "double" /\ pending) =>
            <<session_state.selected_lat, session_state.selected_lon>>' = Selected]_vars

C4_SingleClickMovesBothOrNeither ==
    obs.click.cls = "single" =>
        IF \/ Abs(obs.click.pos[1] - obs.click.before.selected[1]) > SelectionEpsilon
           \/ Abs(obs.click.pos[2] - obs.click.before.selected[2]) > SelectionEpsilon
        THEN /\ obs.click.after.selected = obs.click.pos
             /\ obs.click.after.center = obs.click.pos
        ELSE /\ obs.click.after.selected = obs.click.before.selected
             /\ obs.click.after.center = obs.click.before.center

\* A single-click that moved a selection point which was not at the map center.
C4_Witness ==
    /\ obs.click.cls = "single"
    /\ obs.click.after.selected = obs.click.pos
    /\ obs.click.before.selected # obs.click.pos
    /\ obs.click.before.center # obs.click.before.selected
    /\ Selected = obs.click.pos /\ Center = obs.click.pos

\* C9: a click payload with no last_clicked value or without 'lat' or 'lng'
\* changes neither the selection point, the map center nor the click history,
\* and shows no message.
C9_MalformedClickDiscarded ==
    obs.click.payload # "click" =>
        /\ obs.click.after = obs.click.before
        /\ obs.click.msgs = {}
        /\ obs.click.cls = "none"

\* A payload without 'lng' handed to a pass while a click is on record.
C9_Witness ==
    /\ obs.event = "noise" /\ obs.click.payload = "nolng"
    /\ obs.click.before.pos # None
    /\ session_state.last_click_pos = obs.click.before.pos
    /\ obs.status = "run"

(***************************************************************************)
(* Properties of the area forms and the search                             *)
(***************************************************************************)
\* The ring of a box with latMin >= latMax or lonMin >= lonMax
MalformedRing(ring) ==
    ring[1][2] >= ring[3][2] \/ ring[1][1] >= ring[3][1]

\* C5 (as claimed): no search request carries the polygon of a malformed
\* bounding box.
C5_NoSearchWithMalformedBox ==
    obs.request # None => ~MalformedRing(obs.request[1].intersects)

\* C6 (as claimed): after a search that returned no scene there is no
\* selected scene and no error.
C6_NoResultsNoSelection ==
    "no_results" \in obs.msgs =>
        /\ session_state.selected_item = None
        /\ obs.status # "error"

\* C11: a polygon built from a box with lat_min < lat_max and lon_min <
\* lon_max, at any of the three places that build one, has 5 points in
\* (lon, lat) order, the last equal to the first, and its first four points
\* are the four corners of the box.
C11_RingOfValidBox ==
    \A r \in obs.rings :
        (r.box.lat_min < r.box.lat_max /\ r.box.lon_min < r.box.lon_max) =>
            /\ Len(r.ring) = 5
            /\ r.ring[1] = r.ring[5]
            /\ \A i \in 1..5 : Len(r.ring[i]) = 2
            /\ Cardinality({r.ring[i] : i \in 1..4}) = 4
            /\ {r.ring[i] : i \in 1..4} =
                  {<<lon, lat>> : lon \in {r.box.lon_min, r.box.lon_max},
                                  lat \in {r.box.lat_min, r.box.lat_max}}

\* A polygon built by the direct-entry form from an edited, valid box.
C11_Witness ==
    \E r \in obs.rings :
        /\ r.site = "direct" /\ r.box.lon_max = 1000
        /\ r.box.lat_min < r.box.lat_max /\ r.box.lon_min < r.box.lon_max
        /\ widgets.direct_bbox = r.box

(***************************************************************************)
(* Properties of the image generation                                      *)
(***************************************************************************)
\* C7 (as claimed): every band that the RGB generation opened is closed when
\* it ends.
C7_OpenedBandsClosed ==
    obs.image.kind = "rgb" => obs.image.opened \subseteq obs.image.closed

KeptFields ==
    {"selected_lat", "selected_lon", "map_center_lat", "map_center_lon",
     "area_of_interest", "search_results", "display_items", "selected_item",
     "selected_item_id"}

\* C8: an image generation (RGB or VH) that fails leaves the selection point,
\* the map center, the area of interest, the search results, the display
\* list and the selected scene as they were, shows a message and lets the
\* pass go on.
C8_FailedImageKeepsState ==
    (obs.image.kind # "none" /\ obs.image.outcome # "ok") =>
        /\ \A f \in KeptFields :
              /\ f \in DOMAIN obs.image.before <=> f \in DOMAIN obs.image.after
              /\ f \in DOMAIN obs.image.before => obs.image.after[f] = obs.image.before[f]
        /\ obs.image.msgs # {}
        /\ obs.image.status = "run"
        /\ obs.status = "run"

\* An RGB generation whose crop failed after the three bands were opened,
\* with a scene selected among stored results.
C8_Witness ==
    /\ obs.image.kind = "rgb" /\ obs.image.outcome = "crop_failed"
    /\ obs.image.opened = 1..3
    /\ session_state.selected_item # None
    /\ session_state.search_results # <<>>
    /\ session_state.area_of_interest # None

\* C10 (as claimed): the polygon that band i is cropped with is the ring of
\* the area of interest transformed into the CRS of band i.
C10_PolygonInBandCRS ==
    obs.image.kind = "rgb" =>
        \A i \in DOMAIN obs.image.polygons :
            obs.image.polygons[i] =
                [j \in DOMAIN obs.image.before.area_of_interest |->
                    Transform(obs.image.bands[i].crs, obs.image.before.area_of_interest[j])]

\* C12: three cropped bands of the same pixel dimensions give an image of
\* those dimensions whose channels are the bands in input order, each value
\* the band value divided by 5000 and clipped to [0, 1]; cropped bands of
\* differing dimensions give no image but a failure message.
C12_CompositeScaledAndClipped ==
    (obs.image.kind = "rgb" /\ Len(obs.image.cropped) = 3) =>
        LET g == obs.image.cropped
        IN IF g[1].shape = g[2].shape /\ g[2].shape = g[3].shape
           THEN /\ obs.image.outcome = "ok"
                /\ obs.image.display # <<>>
                /\ DOMAIN obs.image.display[1] = (1..g[1].shape[1]) \X (1..g[1].shape[2])
                /\ \A rc \in DOMAIN obs.image.display[1] : \A ch \in 1..3 :
                      LET v == g[ch].grid[rc]
                          d == obs.image.display[1][rc][ch]
                      IN /\ d.den > 0 /\ 0 <= d.num /\ d.num <= d.den
                         /\ d.num * 5000 =
                              d.den * (IF v < 0 THEN 0 ELSE IF v > 5000 THEN 5000 ELSE v)
           ELSE /\ obs.image.outcome = "composite_failed"
                /\ obs.image.display = <<>>
                /\ "image_error" \in obs.image.msgs

\* An image shown with a value strictly inside (0, 1) and a value clipped
\* to 1, from three bands with different values.
C12_Witness ==
    /\ obs.image.kind = "rgb" /\ obs.image.outcome = "ok"
    /\ obs.image.cropped[1].grid # obs.image.cropped[3].grid
    /\ \E rc \in DOMAIN obs.image.display[1] :
          /\ obs.image.display[1][rc][2].num \in 1..4999
          /\ obs.image.display[1][rc][3].num = 5000
          /\ obs.image.cropped[3].grid[rc] > 5000

(***************************************************************************)
(* Properties of the search request and of the stored results              *)
(***************************************************************************)
\* C13 (as claimed): a Sentinel-2 search request lets through exactly the
\* scenes of the collection whose cloud cover is less than or equal to the
\* maximum cloud cover set on the control; a Sentinel-1 request carries no
\* cloud-cover filter.
C13_CloudCoverAtMostMaximum ==
    obs.request # None =>
        IF widgets.satellite_type = "Sentinel-2"
        THEN \A i \in DOMAIN Catalog :
                Catalog[i].collection = obs.request[1].collections =>
                    (Matches(Catalog[i], obs.request[1])
                        <=> Catalog[i].cloud <= widgets.max_cloud_cover)
        ELSE obs.request[1].query = <<>>

(***************************************************************************)
(* Properties of the click classification and the click history            *)
(***************************************************************************)
\* C14 (as claimed): a click is a single-click exactly when the click history
\* is empty, or 1.0 s or more have passed since the recorded click, or the
\* click is more than 0.01 degrees from the recorded position on an axis; a
\* click at exactly 0.01 degrees is a double-click.
C14_SingleIffFarOrLate ==
    obs.click.cls # "none" =>
        (obs.click.cls = "single" <=>
            \/ obs.click.before.pos = None
            \/ obs.click.time - obs.click.before.time >= DoubleClickWindow
            \/ Abs(obs.click.pos[1] - obs.click.before.pos[1]) > ProximityThreshold
            \/ Abs(obs.click.pos[2] - obs.click.before.pos[2]) > ProximityThreshold)

\* C14 (amended): a click is a single-click exactly when the click history
\* is empty, or 1.0 s or more have passed since the recorded click, or the
\* click is 0.01 degrees or more from the recorded position on an axis; in
\* every other case it is a double-click.
C14_SingleIffNotNearOrLate ==
    obs.click.cls # "none" =>
        /\ obs.click.cls \in {"single", "double"}
        /\ obs.click.cls = "single" <=>
            \/ obs.click.before.pos = None
            \/ obs.click.time - obs.click.before.time >= DoubleClickWindow
            \/ Abs(obs.click.pos[1] - obs.click.before.pos[1]) >= ProximityThreshold
            \/ Abs(obs.click.pos[2] - obs.click.before.pos[2]) >= ProximityThreshold

\* A click of the user exactly 0.01 degrees north of the recorded click, in
\* the same half second, classified as a single-click.
C14_Witness ==
    /\ obs.event = "click" /\ obs.click.cls = "single"
    /\ obs.click.before.pos # None
    /\ obs.click.time - obs.click.before.time < DoubleClickWindow
    /\ Abs(obs.click.pos[1] - obs.click.before.pos[1]) = ProximityThreshold
    /\ obs.click.pos[2] = obs.click.before.pos[2]

\* C15 (as claimed): a click classified as a single-click leaves the click
\* history holding that click's time and position when the pass ends,
\* whether or not it moved the selection point.
C15_SingleClickRecorded ==
    obs.click.cls = "single" =>
        /\ obs.click.after.pos = obs.click.pos
        /\ obs.click.after.time = obs.click.time
        /\ session_state.last_click_pos = obs.click.pos
        /\ session_state.last_click_time = obs.click.time

(***************************************************************************)
(* Properties of the stored area of interest                               *)
(***************************************************************************)
\* C16 (as claimed): after a pass in which a numeric entry form (direct entry
\* or sidebar) holds a box with lat_min < lat_max and lon_min < lon_max, the
\* stored area of interest is the ring of that box, and a search request of
\* that pass carries it.
C16_NumericBoxStored ==
    \A r \in obs.rings :
        (r.site \in {"direct", "sidebar"}
            /\ r.box.lat_min < r.box.lat_max /\ r.box.lon_min < r.box.lon_max) =>
            /\ session_state.area_of_interest = r.ring
            /\ obs.request # None => obs.request[1].intersects = r.ring

(***************************************************************************)
(* Properties of the selected scene                                        *)
(***************************************************************************)
InSeq(x, seq) == \E i \in DOMAIN seq : seq[i] = x

\* C17 (as claimed): in every state the selected scene is empty or is an
\* element of the stored search results and of the stored display list.
C17_SelectedAmongResults ==
    ("selected_item" \in DOMAIN session_state /\ session_state.selected_item # None) =>
        /\ InSeq(session_state.selected_item[1], session_state.search_results)
        /\ InSeq(session_state.selected_item[1], session_state.display_items)

\* C19: in every state selected_item_id and selected_item are both set or
\* both unset, both empty or the id that of the selected scene.
C19_SelectedIdAgrees ==
    /\ "selected_item_id" \in DOMAIN session_state <=> "selected_item" \in DOMAIN session_state
    /\ "selected_item" \in DOMAIN session_state =>
          IF session_state.selected_item = None
          THEN session_state.selected_item_id = 0
          ELSE session_state.selected_item_id = session_state.selected_item[1].id

\* A search whose selection failed, after which the selection box chose from
\* the display list an earlier search had left.
C19_Witness ==
    /\ "selection_error" \in obs.msgs
    /\ session_state.selected_item # None
    /\ session_state.selected_item_id = session_state.selected_item[1].id
    /\ ~InSeq(session_state.selected_item[1], session_state.search_results)
    /\ InSeq(session_state.selected_item[1], session_state.display_items)

(***************************************************************************)
(* Properties of the map render                                            *)
(***************************************************************************)
\* C18 (as claimed): when the page waits for the next user action, the map
\* drawn last is centered on the stored map center and carries the marker at
\* the stored selection point.
C18_MapShowsStoredState ==
    (~pending /\ obs.drawn # None) =>
        /\ obs.drawn[1].center = Center
        /\ obs.drawn[1].marker = Selected

(***************************************************************************)
(* Properties of the session fields                                        *)
(***************************************************************************)
\* C20: no pass reads a session field that no pass has set, whatever the
\* sequence of location-mode and area-mode switches, button presses and
\* searches, and every pass leaves selected_lat, selected_lon,
\* search_results, display_items, selected_item_id and selected_item set.
C20_NoUnsetFieldRead ==
    /\ "unset_field" \notin obs.msgs
    /\ obs.event # "init" =>
          {"selected_lat", "selected_lon", "search_results", "display_items",
           "selected_item_id", "selected_item"} \subseteq DOMAIN session_state

\* The recenter button pressed in direct-entry mode, in a pass that does not
\* go through the click-to-set branch.
C20_Witness ==
    /\ widgets.area_method = "direct" /\ widgets.location_method = "map"
    /\ obs.event = "button" /\ obs.status = "rerun"
    /\ obs.drawn = None /\ obs.msgs = {}
    /\ Center = Selected

====
